---- MODULE Spec2Model ----
(***************************************************************************)
(* A model of the nested-spreadsheet core: Coordinate (coordinate.rs) and  *)
(* the structural handlers of Model::update (model.rs).                    *)
(*                                                                         *)
(* A Coordinate is a non-empty sequence of <<row, col>> pairs.  A Grammar  *)
(* is a record [name, kind, value, sub_coords]; sub_coords is the Vec of   *)
(* child offsets of a Kind::Grid and <<>> for every other kind.  Styles    *)
(* are not modelled.  A Rust panic is modelled by status = "panicked":     *)
(* the handler stops where it panics, what it had already written stays    *)
(* written, and no further message is handled.                             *)
(***************************************************************************)
EXTENDS Integers, Sequences, FiniteSets

VARIABLES
    grammars,       \* Model.grammars : HashMap<Coordinate, Grammar>
    row_heights,    \* Model.row_heights : HashMap<Row, f64>
    col_widths,     \* Model.col_widths : HashMap<Col, f64>
    active_cell,    \* Model.active_cell : Option<Coordinate>
    root,           \* Model.root
    meta,           \* Model.meta
    status,         \* "running", or "panicked" once a handler has panicked
    last,           \* the message handled last and the coordinates it inserted
    pre,            \* the model as it was when that message arrived
    steps,          \* number of messages handled
    input,          \* the argument of a Coordinate function: a text or a coordinate
    fn,             \* the Coordinate function applied last
    output          \* what it returned

vars == <<grammars, row_heights, col_widths, active_cell, root, meta,
          status, last, pre, steps, input, fn, output>>

modelVars == <<grammars, row_heights, col_widths, active_cell, root, meta,
               status, last, pre, steps>>

coordVars == <<input, fn, output>>

----------------------------------------------------------------------------
(* Bounds of the exploration *)

MaxSteps == 4      \* messages handled in one behaviour
MaxShortSteps == 3 \* messages handled in a behaviour of SpecShort
MaxGrid == 2       \* largest rows / cols argument of AddNestedGrid
MaxDepth == 4      \* AddNestedGrid is only sent for coordinates shorter than this
MaxIdx == 5        \* InsertRow / InsertCol are only sent below this row / column
MaxFrags == 2      \* fragments after the first in a coordinate text
MaxLen == 3        \* pairs in a coordinate handed to a Coordinate function
MaxPair == 2       \* largest row / column in such a coordinate

(* Program constants *)

\* The largest index a NonZeroU32 holds.  u32::MAX is 4294967295; the model
\* checker's integers end at 2147483647, which stands for it here.  It is only
\* compared with, never added to.
U32Max == 2147483647
DefaultRowHeight == 30
DefaultColWidth == 90

----------------------------------------------------------------------------
(* Option / Result values *)

None == [tag |-> "None", val |-> <<>>]
Some(v) == [tag |-> "Some", val |-> v]
Panic == [tag |-> "Panic", val |-> <<>>]

----------------------------------------------------------------------------
(* coordinate.rs *)

Root == << <<1, 1>> >>
Meta == << <<1, 2>> >>

\* a child_of that pushes the pair with its row and column exchanged
child_of_swapped(p, child_coord) ==
    Append(p, <<child_coord[2], child_coord[1]>>)

child_of(p, child_coord) == Append(p, child_coord)

\* a parent() without the early return: the last pair is popped off root and
\* meta as well
parent_always_pops(c) == Some(SubSeq(c, 1, Len(c) - 1))

parent(c) ==
    IF Len(c) = 1 THEN None
    ELSE Some(SubSeq(c, 1, Len(c) - 1))

row(c) == c[Len(c)][1]

col(c) == c[Len(c)][2]

\* a full_row that falls back on the coordinate itself where there is no parent
full_row_or_self(c) ==
    IF Len(c) = 1 THEN Some(<<c, c[Len(c)][1]>>)
    ELSE Some(<<SubSeq(c, 1, Len(c) - 1), c[Len(c)][1]>>)

\* Row(parent, row); the expect() panics on root and meta
full_row(c) ==
    IF parent(c).tag = "None" THEN Panic
    ELSE Some(<<parent(c).val, row(c)>>)

full_col(c) ==
    IF parent(c).tag = "None" THEN Panic
    ELSE Some(<<parent(c).val, col(c)>>)

\* an equality of rows that looks at the row index only
row_eq_index_only(a, b) == a[2] = b[2]

\* impl PartialEq for Row: self.0 == other.0 && self.1 == other.1
row_eq(a, b) == a[1] = b[1] /\ a[2] = b[2]

\* impl PartialEq for Col
col_eq(a, b) == a[1] = b[1] /\ a[2] = b[2]

\* last.x.get() + 1 on a u32: the addition overflows at U32Max (a panic in a
\* debug build; in a release build it wraps to 0 and NonZeroU32::new(0).unwrap()
\* panics)
succ_u32(x) == IF x = U32Max THEN Panic ELSE Some(x + 1)

replace_last(c, rc) == [c EXCEPT ![Len(c)] = rc]

\* a neighbor_above whose boundary test is last.0.get() >= 1
neighbor_above_from_one(c) ==
    IF Len(c) = 0 THEN None
    ELSE IF c[Len(c)][1] >= 1
    THEN Some([c EXCEPT ![Len(c)] = <<c[Len(c)][1] - 1, c[Len(c)][2]>>])
    ELSE None

\* a neighbor_left that decrements the row instead of the column
neighbor_left_moves_up(c) ==
    IF Len(c) = 0 THEN None
    ELSE IF c[Len(c)][2] > 1
    THEN Some([c EXCEPT ![Len(c)] = <<c[Len(c)][1] - 1, c[Len(c)][2]>>])
    ELSE None

neighbor_above(c) ==
    IF Len(c) = 0 THEN None
    ELSE IF row(c) > 1 THEN Some(replace_last(c, <<row(c) - 1, col(c)>>))
    ELSE None

neighbor_below(c) ==
    IF Len(c) = 0 THEN None
    ELSE IF succ_u32(row(c)).tag = "Panic" THEN Panic
    ELSE Some(replace_last(c, <<row(c) + 1, col(c)>>))

neighbor_left(c) ==
    IF Len(c) = 0 THEN None
    ELSE IF col(c) > 1 THEN Some(replace_last(c, <<row(c), col(c) - 1>>))
    ELSE None

neighbor_right(c) ==
    IF Len(c) = 0 THEN None
    ELSE IF succ_u32(col(c)).tag = "Panic" THEN Panic
    ELSE Some(replace_last(c, <<row(c), col(c) + 1>>))

\* a count of every position at which the two coordinates agree
is_n_parent_counting_all(a, b) ==
    IF Len(a) > Len(b) THEN None
    ELSE Some(Cardinality({i \in 1..Len(a) : a[i] = b[i]}))

\* the for loop of is_n_parent over self.row_cols zipped with other.row_cols,
\* from position i with n pairs counted: it breaks at the first pair that
\* differs
RECURSIVE count_shared(_, _, _, _)
count_shared(a, b, i, n) ==
    IF i > Len(a) \/ i > Len(b) THEN n
    ELSE IF a[i] # b[i] THEN n
    ELSE count_shared(a, b, i + 1, n + 1)

\* self.is_n_parent(other)
is_n_parent(a, b) ==
    IF Len(a) > Len(b) THEN None
    ELSE Some(count_shared(a, b, 1, 0))

----------------------------------------------------------------------------
(* Coordinate texts: coord! and to_string                                  *)
(*                                                                         *)
(* A text is the sequence of its '-'-separated fragments.  A fragment is   *)
(* [special, alpha, digit]: special is "root" or "meta" for the two tokens *)
(* and "" otherwise; alpha is the letter run, each letter as its code      *)
(* minus 64 ('A' is 1, 'Z' is 26); digit is the digit run, most            *)
(* significant digit first.                                                *)

Special(name) == [special |-> name, alpha |-> <<>>, digit |-> <<>>]
Fragment(alpha, digit) == [special |-> "", alpha |-> alpha, digit |-> digit]

\* a conversion that lets a zero through
non_zero_u32_tuple_unchecked(rows, cols) == Some(<<rows, cols>>)

\* non_zero_u32_tuple((rows, cols)): NonZeroU32 of both; panics on a zero
non_zero_u32_tuple(rows, cols) ==
    IF rows = 0 \/ cols = 0 THEN Panic ELSE Some(<<rows, cols>>)

\* Rule::coordinate of coordinate.pest: an optional root / meta token, which
\* can only come first, then letter-run + digit-run fragments
coordinate_rule(t) ==
    /\ Len(t) >= 1
    /\ \A i \in 1..Len(t) :
          \/ i = 1 /\ t[i] \in {Special("root"), Special("meta")}
          \/ /\ t[i].special = ""
             /\ Len(t[i].alpha) >= 1
             /\ Len(t[i].digit) >= 1
             /\ \A j \in 1..Len(t[i].alpha) : t[i].alpha[j] \in 1..26
             /\ \A j \in 1..Len(t[i].digit) : t[i].digit[j] \in 0..9

\* a letter run read with 'A' as 0: val += (ch as u32) - 65
alpha_val_from_zero(a) ==
    IF Len(a) = 0 THEN 0
    ELSE LET sum[i \in 0..Len(a)] == IF i = 0 THEN 0 ELSE sum[i - 1] + a[i] - 1
         IN sum[Len(a)]

\* Rule::alpha: val += (ch as u32) - 64 for every letter
RECURSIVE alpha_val(_)
alpha_val(a) ==
    IF Len(a) = 0 THEN 0
    ELSE alpha_val(SubSeq(a, 1, Len(a) - 1)) + a[Len(a)]

\* Rule::digit: as_str().parse::<u32>()
RECURSIVE digit_val(_)
digit_val(d) ==
    IF Len(d) = 0 THEN 0
    ELSE 10 * digit_val(SubSeq(d, 1, Len(d) - 1)) + d[Len(d)]

\* one fragment of the text as a (row, col) pair
fragment_pair(f) ==
    IF f.special = "root" THEN non_zero_u32_tuple(1, 1)
    ELSE IF f.special = "meta" THEN non_zero_u32_tuple(1, 2)
    ELSE non_zero_u32_tuple(digit_val(f.digit), alpha_val(f.alpha))

\* coord!(text): panics when the text does not parse or a fragment has a zero
coord(t) ==
    IF ~coordinate_rule(t) THEN Panic
    ELSE IF \E i \in 1..Len(t) : fragment_pair(t[i]).tag = "Panic" THEN Panic
    ELSE Some([i \in 1..Len(t) |-> fragment_pair(t[i]).val])

\* the decimal digits of n
RECURSIVE decimal(_)
decimal(n) ==
    IF n < 10 THEN <<n>>
    ELSE Append(decimal(n \div 10), n % 10)

\* coord_show(row_cols): "root" or "meta" for the first pair, then one
\* fragment per pair, the column as a letter and the row in decimal; None for
\* a first pair that is neither
coord_show(row_cols) ==
    IF Len(row_cols) = 0 THEN None
    ELSE IF row_cols[1] \notin {<<1, 1>>, <<1, 2>>} THEN None
    ELSE Some([i \in 1..Len(row_cols) |->
                  IF i = 1
                  THEN Special(IF row_cols[1] = <<1, 1>> THEN "root" ELSE "meta")
                  ELSE Fragment(<<row_cols[i][2]>>, decimal(row_cols[i][1]))])

\* Coordinate::to_string: coord_show(..).unwrap()
to_string(c) ==
    IF coord_show(c).tag = "None" THEN Panic ELSE coord_show(c)

\* the text of a bare row number: format!("{}", row)
RowText(n) == Fragment(<<>>, decimal(n))

\* a row_to_string that formats the coordinate itself instead of its parent
row_to_string_of_self(c) ==
    IF Len(c) > 1
    THEN IF to_string(c).tag = "Panic" THEN Panic
         ELSE Some(Append(to_string(c).val, RowText(row(c))))
    ELSE Some(<<RowText(row(c))>>)

\* Coordinate::row_to_string: format!("{}-{}", parent.to_string(), row), or
\* format!("{}", row) where there is no parent
row_to_string(c) ==
    IF parent(c).tag = "Some"
    THEN IF to_string(parent(c).val).tag = "Panic" THEN Panic
         ELSE Some(Append(to_string(parent(c).val).val, RowText(row(c))))
    ELSE Some(<<RowText(row(c))>>)

----------------------------------------------------------------------------
(* Grammars *)

Grammar(name, kind, value, sub_coords) ==
    [name |-> name, kind |-> kind, value |-> value, sub_coords |-> sub_coords]

\* Grammar::default()
default_grammar == Grammar("", "Text", "", <<>>)

\* Grammar::suggestion(name, value)
suggestion(name, value) == Grammar(name, "Text", value, <<>>)

\* Grammar::as_grid(rows, cols): the offsets (1,1) .. (rows,cols), row-major
as_grid(rows, cols) ==
    Grammar("", "Grid", "",
            [i \in 1..(rows * cols) |->
                <<((i - 1) \div cols) + 1, ((i - 1) % cols) + 1>>])

\* HashMap::insert
Insert(map, k, v) ==
    [x \in (DOMAIN map) \cup {k} |-> IF x = k THEN v ELSE map[x]]

\* HashMap::insert of the same value under every key of ks
InsertAll(map, ks, v) ==
    [x \in (DOMAIN map) \cup ks |-> IF x \in ks THEN v ELSE map[x]]

\* a HashMap::insert that overwrites the size entries that exist
InsertOverwriting(map, ks, v) ==
    [x \in (DOMAIN map) \cup ks |-> IF x \in ks THEN v ELSE map[x]]

\* if !map.contains_key(k) { map.insert(k, v) }, for every key of ks
InsertAbsent(map, ks, v) ==
    [x \in (DOMAIN map) \cup ks |-> IF x \in DOMAIN map THEN map[x] ELSE v]

Range(seq) == {seq[i] : i \in 1..Len(seq)}

\* the orders in which a HashMap can hand out the keys of S
Orders(S) ==
    {f \in [1..Cardinality(S) -> S] :
        \A i, j \in 1..Cardinality(S) : i # j => f[i] # f[j]}

----------------------------------------------------------------------------
(* The model record: the fields of Model that the handlers read and write *)

ModelRec(g, rh, cw, ac, r, m) ==
    [grammars |-> g, row_heights |-> rh, col_widths |-> cw,
     active_cell |-> ac, root |-> r, meta |-> m]

\* the outcome of a handler: the model it leaves, whether it panicked, and the
\* coordinates of the cells it inserted (children, new row or column, copies)
Done(M, ins) == [m |-> M, status |-> "running", inserted |-> ins]
Panicked(M, ins) == [m |-> M, status |-> "panicked", inserted |-> ins]

----------------------------------------------------------------------------
(* Model::create *)

root_grammar ==
    Grammar("root", "Grid", "",
            << <<1, 1>>, <<2, 1>>, <<3, 1>>, <<1, 2>>, <<2, 2>>, <<3, 2>> >>)

\* a meta grid laid out as one row: A1, B1
meta_grammar_one_row == Grammar("meta", "Grid", "", << <<1, 1>>, <<1, 2>> >>)

meta_grammar == Grammar("meta", "Grid", "", << <<1, 1>>, <<2, 1>> >>)

RootA1 == child_of(Root, <<1, 1>>)
MetaA1 == child_of(Meta, <<1, 1>>)
MetaA2 == child_of(Meta, <<2, 1>>)
MetaA3 == child_of(Meta, <<3, 1>>)

\* Model.suggestions
suggestions == <<MetaA1, MetaA2, MetaA3>>

\* apply_definition_grammar(m, defn_coord): installs the definition subtree
\* under defn_coord.  Its code is not among the sources; the subtree is a grid
\* with one cell, and the grid that holds defn_coord declares it, so that the
\* seed satisfies the session invariants of the specification.
apply_definition_grammar(M, defn_coord) ==
    LET p == parent(defn_coord).val
        rc == defn_coord[Len(defn_coord)]
        holder == [M.grammars[p] EXCEPT !.sub_coords = Append(@, rc)]
        g1 == Insert(M.grammars, p, holder)
        g2 == Insert(g1, defn_coord, Grammar("defn", "Grid", "", << <<1, 1>> >>))
        g3 == Insert(g2, child_of(defn_coord, <<1, 1>>),
                     Grammar("defn_label", "Text", "Define Grammar", <<>>))
    IN [M EXCEPT !.grammars = g3,
                 !.meta = IF p = Meta THEN holder ELSE @,
                 !.root = IF p = Root THEN holder ELSE @]

create ==
    LET g == [k \in {Root, Meta}
                    \cup {child_of(Root, <<r, c>>) : r \in 1..3, c \in 1..2}
                    \cup {MetaA1, MetaA2} |->
                CASE k = Root -> root_grammar
                  [] k = Meta -> meta_grammar
                  [] k = MetaA1 -> suggestion("js grammar", "This is js")
                  [] k = MetaA2 -> suggestion("java grammar", "This is java")
                  [] OTHER -> default_grammar]
        cw == [x \in {<<Root, 1>>, <<Root, 2>>} |-> 90]
        rh == [x \in {<<Root, 1>>, <<Root, 2>>, <<Root, 3>>} |-> 30]
    IN apply_definition_grammar(
           ModelRec(g, rh, cw, Some(RootA1), root_grammar, meta_grammar), MetaA3)

----------------------------------------------------------------------------
(* Sessions: Model::to_session, Model::load_session *)

\* Session { root, meta, grammars }
Session(r, m, g) == [root |-> r, meta |-> m, grammars |-> g]

to_session(M) == Session(M.root, M.meta, M.grammars)

load_session(M, session) ==
    [M EXCEPT !.root = session.root,
              !.meta = session.meta,
              !.grammars = session.grammars]

----------------------------------------------------------------------------
(* Model::query_parent, query_col, query_row *)

query_parent(g, coord_parent) ==
    {k \in DOMAIN g : parent(k) = Some(coord_parent)}

\* a closure of query_row without the test for root and meta
row_filter_unguarded(k, coord_row) ==
    IF full_row(k).tag = "Panic" THEN Panic
    ELSE IF row_eq(full_row(k).val, coord_row) THEN Some(k)
    ELSE None

\* the closure that query_col hands to filter_map: None drops the key, Some
\* keeps it, and the call panics where full_col does
col_filter(k, coord_col) ==
    IF Len(k) = 1 THEN None
    ELSE IF full_col(k).tag = "Panic" THEN Panic
    ELSE IF col_eq(full_col(k).val, coord_col) THEN Some(k)
    ELSE None

\* the closure of query_row
row_filter(k, coord_row) ==
    IF Len(k) = 1 THEN None
    ELSE IF full_row(k).tag = "Panic" THEN Panic
    ELSE IF row_eq(full_row(k).val, coord_row) THEN Some(k)
    ELSE None

query_col(g, coord_col) ==
    {k \in DOMAIN g : col_filter(k, coord_col).tag = "Some"}

query_row(g, coord_row) ==
    {k \in DOMAIN g : row_filter(k, coord_row).tag = "Some"}

\* the query panics on one of the keys
query_col_panics(g, coord_col) ==
    \E k \in DOMAIN g : col_filter(k, coord_col).tag = "Panic"

query_row_panics(g, coord_row) ==
    \E k \in DOMAIN g : row_filter(k, coord_row).tag = "Panic"

----------------------------------------------------------------------------
(* utils: resize, move_grammar, resize_cells *)

\* a resize that writes nothing
resize_nothing(M, c, row_height, col_width) == Done(M, {})

\* resize(m, coord, row_height, col_width): sets the size entries of
\* coord.full_row() and coord.full_col(); full_row panics on root and meta
resize(M, c, row_height, col_width) ==
    IF full_row(c).tag = "Panic" \/ full_col(c).tag = "Panic"
    THEN Panicked(M, {})
    ELSE Done([M EXCEPT
                 !.row_heights = Insert(@, full_row(c).val, row_height),
                 !.col_widths = Insert(@, full_col(c).val, col_width)], {})

\* the coordinates move_grammar(map, source, dest) writes: dest, and below it
\* the images of the declared children of a grid that are in the map
RECURSIVE moved_pairs(_, _, _)
moved_pairs(g, source, dest) ==
    IF source \notin DOMAIN g THEN {}
    ELSE {<<source, dest>>} \cup
         UNION {moved_pairs(g, child_of(source, rc), child_of(dest, rc)) :
                    rc \in Range(g[source].sub_coords)}

\* a move_grammar that writes nothing
move_grammar_nowhere(g, source, dest) == g

\* a move_grammar that takes the source out of the map
move_grammar_taking(g, source, dest) ==
    LET pairs == moved_pairs(g, source, dest)
        dests == {pr[2] : pr \in pairs}
        src_of(d) == (CHOOSE pr \in pairs : pr[2] = d)[1]
    IN [k \in ((DOMAIN g) \cup dests) \ {source} |->
            IF k \in dests THEN g[src_of(k)] ELSE g[k]]

\* move_grammar(map, source, dest): the grammar at source is put at dest, a
\* grid together with its children
move_grammar(g, source, dest) ==
    LET pairs == moved_pairs(g, source, dest)
        dests == {pr[2] : pr \in pairs}
        src_of(d) == (CHOOSE pr \in pairs : pr[2] = d)[1]
    IN [k \in (DOMAIN g) \cup dests |->
            IF k \in dests THEN g[src_of(k)] ELSE g[k]]

\* resize_cells(map, coord): rewrites the styles of the grammars around coord;
\* styles are not modelled, so the kinds and the keys stay as they are
resize_cells(g, c) == g

----------------------------------------------------------------------------
(* Model::update, one operator per message: the outcome of handling it *)

\* a ChangeInput that writes the text into a grammar of any kind
change_input_any_kind(M, c, new_value) ==
    IF c \in DOMAIN M.grammars
    THEN Done([M EXCEPT !.grammars[c] =
                  [@ EXCEPT !.kind = "Text", !.value = new_value,
                            !.sub_coords = <<>>]], {})
    ELSE Done(M, {})

\* Action::ChangeInput(coord, new_value): get_mut(&coord) matched against
\* Some(Grammar { kind: Kind::Text(_), .. }); every other case is `_ => ()`
change_input(M, c, new_value) ==
    IF c \in DOMAIN M.grammars /\ M.grammars[c].kind = "Text"
    THEN Done([M EXCEPT !.grammars[c] = [@ EXCEPT !.value = new_value]], {})
    ELSE Done(M, {})

\* Action::SaveSession(): the snapshot is serialized and written to a file;
\* j.unwrap() and fs::write(..).expect(..) panic when that fails, written
\* says whether it succeeded.  The model itself is only read.
save_session(M, written) ==
    IF written THEN Done(M, {}) ELSE Panicked(M, {})

\* Action::SetActiveCell(coord)
set_active_cell(M, c) == Done([M EXCEPT !.active_cell = Some(c)], {})

\* Action::LoadSession(file_data): serde_json::from_str(..).unwrap() panics on
\* file data that is not a session; file is Some(session) or None
load_session_action(M, file) ==
    IF file.tag = "Some" THEN Done(load_session(M, file.val), {})
    ELSE Panicked(M, {})

\* a completion that resets the sizes of the destination's row and column
do_completion_shrinking(M, source_coord, dest_coord) ==
    Done([M EXCEPT
            !.grammars = move_grammar(@, source_coord, dest_coord),
            !.row_heights = [r \in DOMAIN @ |->
                IF Some(r) = full_row(dest_coord) THEN 0 ELSE @[r]],
            !.col_widths = [k \in DOMAIN @ |->
                IF Some(k) = full_col(dest_coord) THEN 0 ELSE @[k]]],
         {pr[2] : pr \in moved_pairs(M.grammars, source_coord, dest_coord)})

\* Action::DoCompletion(source_coord, dest_coord)
do_completion(M, source_coord, dest_coord) ==
    LET g1 == move_grammar(M.grammars, source_coord, dest_coord)
        g2 == resize_cells(g1, dest_coord)
    IN Done([M EXCEPT !.grammars = g2],
            {pr[2] : pr \in moved_pairs(M.grammars, source_coord, dest_coord)})

\* a loop over the sub_coords that skips the first one
nested_coords_skip_first(c, sub_coords) ==
    {child_of(c, sub_coords[i]) : i \in 2..Len(sub_coords)}

\* the children that AddNestedGrid inserts: child_of(coord, sub_coord)
nested_coords(c, sub_coords) == {child_of(c, rc) : rc \in Range(sub_coords)}

\* an active cell taken from the end of the sub_coords
last_child(c, sub_coords) ==
    IF Len(sub_coords) = 0 THEN None
    ELSE Some(child_of(c, sub_coords[Len(sub_coords)]))

\* line 327: sub_coords.first().map(|c| Coordinate::child_of(&coord, *c))
first_child(c, sub_coords) ==
    IF Len(sub_coords) = 0 THEN None
    ELSE Some(child_of(c, sub_coords[1]))

\* lines 340-342: the entry of coord's parent, if there is one, takes the kind
\* of the new grid
set_parent_kind(g, c, grammar) ==
    IF parent(c).tag = "Some" /\ parent(c).val \in DOMAIN g
    THEN [g EXCEPT ![parent(c).val] =
             [@ EXCEPT !.kind = grammar.kind,
                       !.value = grammar.value,
                       !.sub_coords = grammar.sub_coords]]
    ELSE g

\* Action::AddNestedGrid(coord, (rows, cols))
add_nested_grid(M, c, rows, cols) ==
    IF non_zero_u32_tuple(rows, cols).tag = "Panic" THEN Panicked(M, {})
    ELSE
    LET grammar == as_grid(rows, cols)
        sub_coords == grammar.sub_coords
        new_coords == nested_coords(c, sub_coords)
        g1 == InsertAll(M.grammars, new_coords, default_grammar)
        rh == InsertAbsent(M.row_heights,
                           {full_row(k).val : k \in new_coords}, DefaultRowHeight)
        cw == InsertAbsent(M.col_widths,
                           {full_col(k).val : k \in new_coords}, DefaultColWidth)
        g2 == set_parent_kind(g1, c, grammar)
        g3 == Insert(g2, c, grammar)
        M1 == [M EXCEPT !.active_cell = first_child(c, sub_coords),
                        !.grammars = g3,
                        !.row_heights = rh,
                        !.col_widths = cw]
        r == resize(M1, c, rows * DefaultRowHeight, cols * DefaultColWidth)
    IN [r EXCEPT !.inserted = new_coords]

\* a walk that stops at once: the active cell is taken for the rightmost one
right_most_no_walk(g, c) == Some(c)

\* the while-let loop of InsertCol: the last coordinate of the run of map keys
\* to the right of c
RECURSIVE right_most(_, _)
right_most(g, c) ==
    LET n == neighbor_right(c)
    IN IF n.tag = "Panic" THEN Panic
       ELSE IF n.tag = "Some" /\ n.val \in DOMAIN g THEN right_most(g, n.val)
       ELSE Some(c)

\* the while-let loop of InsertRow
RECURSIVE bottom_most(_, _)
bottom_most(g, c) ==
    LET n == neighbor_below(c)
    IN IF n.tag = "Panic" THEN Panic
       ELSE IF n.tag = "Some" /\ n.val \in DOMAIN g THEN bottom_most(g, n.val)
       ELSE Some(c)

\* right_most_col_coords, as a set; empty where the handler does not get to it
right_most_col_coords(M) ==
    IF M.active_cell.tag # "Some" THEN {}
    ELSE LET rm == right_most(M.grammars, M.active_cell.val)
         IN IF rm.tag = "Panic" \/ full_col(rm.val).tag = "Panic" THEN {}
            ELSE query_col(M.grammars, full_col(rm.val).val)

bottom_most_row_coords(M) ==
    IF M.active_cell.tag # "Some" THEN {}
    ELSE LET bm == bottom_most(M.grammars, M.active_cell.val)
         IN IF bm.tag = "Panic" \/ full_row(bm.val).tag = "Panic" THEN {}
            ELSE query_row(M.grammars, full_row(bm.val).val)

\* lines 364-378 and 397-411: the new offsets are pushed onto the parent's
\* sub_coords and a default grammar is inserted at each of them
insert_offsets(M, p, new_offsets) ==
    LET g == M.grammars
        new_coords == {child_of(p, rc) : rc \in Range(new_offsets)}
        g1 == InsertAll(g, new_coords, default_grammar)
        g2 == Insert(g1, p, [g[p] EXCEPT !.sub_coords = @ \o new_offsets])
    IN Done([M EXCEPT !.grammars = g2], new_coords)

\* Action::InsertCol; vec is right_most_col_coords in the order the map
\* iterates it
insert_col(M, vec) ==
    IF M.active_cell.tag # "Some" THEN Done(M, {})
    ELSE
    LET c == M.active_cell.val
        g == M.grammars
        rm == right_most(g, c)
    IN IF rm.tag = "Panic" THEN Panicked(M, {})
       ELSE IF full_col(rm.val).tag = "Panic" THEN Panicked(M, {})
       ELSE IF parent(c).tag = "None" THEN Panicked(M, {})
       ELSE LET p == parent(c).val
            IN IF p \notin DOMAIN g \/ g[p].kind # "Grid" THEN Done(M, {})
               ELSE IF \E i \in 1..Len(vec) : succ_u32(col(vec[i])).tag = "Panic"
               THEN Panicked(M, {})
               ELSE insert_offsets(M, p,
                        [i \in 1..Len(vec) |-> <<row(vec[i]), col(vec[i]) + 1>>])

\* Action::InsertRow; vec is bottom_most_row_coords in the order the map
\* iterates it
insert_row(M, vec) ==
    IF M.active_cell.tag # "Some" THEN Done(M, {})
    ELSE
    LET c == M.active_cell.val
        g == M.grammars
        bm == bottom_most(g, c)
    IN IF bm.tag = "Panic" THEN Panicked(M, {})
       ELSE IF full_row(bm.val).tag = "Panic" THEN Panicked(M, {})
       ELSE IF parent(c).tag = "None" THEN Panicked(M, {})
       ELSE LET p == parent(c).val
            IN IF p \notin DOMAIN g \/ g[p].kind # "Grid" THEN Done(M, {})
               ELSE IF \E i \in 1..Len(vec) : succ_u32(row(vec[i])).tag = "Panic"
               THEN Panicked(M, {})
               ELSE insert_offsets(M, p,
                        [i \in 1..Len(vec) |-> <<row(vec[i]) + 1, col(vec[i])>>])

----------------------------------------------------------------------------
(* view_grammar, view_grid_grammar: what is rendered for a coordinate.  A   *)
(* rendered cell is [cell, nodes]; nodes holds what each child rendered, in *)
(* the order of add_child.  The empty fragment is NoNode.                   *)

NoNode == [cell |-> <<>>, nodes |-> <<>>]

\* the children handed to view_grid_grammar, last declared offset first
grid_children_reversed(c, sub_coords) ==
    [i \in 1..Len(sub_coords) |->
        Append(c, sub_coords[Len(sub_coords) + 1 - i])]

\* sub_coords.iter().map(|c| Coordinate::child_of(&coord, *c)).collect()
grid_children(c, sub_coords) ==
    [i \in 1..Len(sub_coords) |-> child_of(c, sub_coords[i])]

\* the class and id attributes of a cell: row_to_string() and to_string()
\* panic where the coordinate has no text
cell_attributes(c) ==
    IF row_to_string(c).tag = "Panic" \/ to_string(c).tag = "Panic" THEN Panic
    ELSE Some(<<row_to_string(c).val, to_string(c).val>>)

RECURSIVE view_grammar(_, _)
view_grammar(g, c) ==
    IF c \notin DOMAIN g THEN Some(NoNode)
    ELSE IF g[c].kind = "Grid"
    THEN \* view_grid_grammar(m, &coord, sub_coords)
         LET sub == grid_children(c, g[c].sub_coords)
             nodes == [i \in 1..Len(sub) |-> view_grammar(g, sub[i])]
         IN IF \E i \in 1..Len(sub) : nodes[i].tag = "Panic" THEN Panic
            ELSE IF cell_attributes(c).tag = "Panic" THEN Panic
            ELSE Some([cell |-> c,
                       nodes |-> [i \in 1..Len(sub) |-> nodes[i].val]])
    ELSE IF cell_attributes(c).tag = "Panic" THEN Panic
    ELSE Some([cell |-> c, nodes |-> <<>>])

----------------------------------------------------------------------------
(* The state machine: one action per message of Model::update *)

Current == ModelRec(grammars, row_heights, col_widths, active_cell, root, meta)

NoCoord == <<>>

\* last.coord holds the argument of the message: the coordinate of
\* SetActiveCell and AddNestedGrid, the destination of DoCompletion, the
\* session of LoadSession; last.source holds the source of DoCompletion

\* the handler's outcome becomes the next state; last and pre record the
\* message and the model it found, pre also the message before it, and
\* pre.back the message before that one and the keys of the map after it
Apply(op, c, source, rows, cols, out) ==
    /\ grammars' = out.m.grammars
    /\ row_heights' = out.m.row_heights
    /\ col_widths' = out.m.col_widths
    /\ active_cell' = out.m.active_cell
    /\ root' = out.m.root
    /\ meta' = out.m.meta
    /\ status' = out.status
    /\ last' = [op |-> op, coord |-> c, source |-> source,
                 rows |-> rows, cols |-> cols, inserted |-> out.inserted]
    /\ pre' = [m |-> Current, op |-> last.op, coord |-> last.coord,
                rows |-> last.rows, cols |-> last.cols,
                inserted |-> last.inserted,
                back |-> [op |-> pre.op, coord |-> pre.coord,
                          rows |-> pre.rows, cols |-> pre.cols,
                          keys |-> DOMAIN pre.m.grammars]]
    /\ steps' = steps + 1
    /\ UNCHANGED coordVars

Ready == status = "running" /\ steps < MaxSteps

\* c and the coordinates above it
RECURSIVE SelfAndAncestors(_)
SelfAndAncestors(c) ==
    IF Len(c) <= 1 THEN {c}
    ELSE {c} \cup SelfAndAncestors(parent(c).val)

ActiveChain ==
    IF active_cell.tag = "Some" THEN SelfAndAncestors(active_cell.val) ELSE {}

\* AddNestedGrid is sent for the active cell or a cell above it
NestTargets == {c \in ActiveChain : c \in DOMAIN grammars /\ Len(c) < MaxDepth}

\* SetActiveCell is sent for the cell above, below, to the right of or inside
\* the active cell
SelectTargets ==
    IF active_cell.tag # "Some" THEN {}
    ELSE LET a == active_cell.val
         IN {c \in {a} :  FALSE}
            \cup (IF parent(a).tag = "Some" THEN {parent(a).val} ELSE {})
            \cup (IF Len(a) > 1 /\ row(a) < MaxIdx
                  THEN {neighbor_below(a).val} ELSE {})
            \cup (IF Len(a) > 1 /\ col(a) < MaxIdx
                  THEN {neighbor_right(a).val} ELSE {})
            \cup (IF Len(a) < MaxDepth THEN {child_of(a, <<1, 1>>)} ELSE {})

\* DoCompletion is sent from a suggestion to the active cell, both map keys in
\* different subtrees
CompletionSources ==
    {c \in Range(suggestions) : c \in DOMAIN grammars}

CompletionDests ==
    {c \in DOMAIN grammars :
        /\ active_cell = Some(c)
        /\ \A s \in CompletionSources :
              s \notin SelfAndAncestors(c) /\ c \notin SelfAndAncestors(s)}

\* a session saved from the seed model
SeedSession == to_session(create)

\* a session with a single cell: root declares A1, meta declares nothing
OneCellSession ==
    LET r == Grammar("root", "Grid", "", << <<1, 1>> >>)
        m == Grammar("meta", "Grid", "", <<>>)
    IN Session(r, m, [k \in {Root, Meta, RootA1} |->
                         CASE k = Root -> r
                           [] k = Meta -> m
                           [] OTHER -> default_grammar])

\* the file data handed to LoadSession: a saved session, or data that does not
\* deserialize
SessionFiles == {Some(SeedSession), Some(OneCellSession), None}

\* ChangeInput is sent for the active cell, with the text typed into it
InputTargets == IF active_cell.tag = "Some" THEN {active_cell.val} ELSE {}

InputTexts == {"x"}

ChangeInput(c, new_value) ==
    /\ Ready
    /\ Apply("ChangeInput", c, NoCoord, 0, 0, change_input(Current, c, new_value))

\* last.coord holds the snapshot that SaveSession hands to the serializer
SaveSession(written) ==
    /\ Ready
    /\ Apply("SaveSession", to_session(Current), NoCoord, 0, 0,
             save_session(Current, written))

SetActiveCell(c) ==
    /\ Ready
    /\ Apply("SetActiveCell", c, NoCoord, 0, 0, set_active_cell(Current, c))

DoCompletion(source_coord, dest_coord) ==
    /\ Ready
    /\ Apply("DoCompletion", dest_coord, source_coord, 0, 0,
             do_completion(Current, source_coord, dest_coord))

AddNestedGrid(c, rows, cols) ==
    /\ Ready
    /\ Apply("AddNestedGrid", c, NoCoord, rows, cols,
             add_nested_grid(Current, c, rows, cols))

LoadSession(file) ==
    /\ Ready
    /\ Apply("LoadSession", file.val, NoCoord, 0, 0, load_session_action(Current, file))

InsertCol ==
    /\ Ready
    /\ \A k \in right_most_col_coords(Current) : col(k) < MaxIdx
    /\ \E vec \in Orders(right_most_col_coords(Current)) :
          Apply("InsertCol", NoCoord, NoCoord, 0, 0, insert_col(Current, vec))

InsertRow ==
    /\ Ready
    /\ \A k \in bottom_most_row_coords(Current) : row(k) < MaxIdx
    /\ \E vec \in Orders(bottom_most_row_coords(Current)) :
          Apply("InsertRow", NoCoord, NoCoord, 0, 0, insert_row(Current, vec))

InitModel ==
    /\ grammars = create.grammars
    /\ row_heights = create.row_heights
    /\ col_widths = create.col_widths
    /\ active_cell = create.active_cell
    /\ root = create.root
    /\ meta = create.meta
    /\ status = "running"
    /\ last = [op |-> "create", coord |-> NoCoord, source |-> NoCoord,
               rows |-> 0, cols |-> 0, inserted |-> {}]
    /\ pre = [m |-> create, op |-> "create", coord |-> NoCoord,
               rows |-> 0, cols |-> 0, inserted |-> {},
               back |-> [op |-> "create", coord |-> NoCoord,
                         rows |-> 0, cols |-> 0,
                         keys |-> DOMAIN create.grammars]]
    /\ steps = 0

\* the argument record: a text, or a coordinate c together with the second
\* argument of the function, a pair rc or a coordinate other
NoInput ==
    [kind |-> "none", text |-> <<>>, c |-> Root, rc |-> <<1, 1>>, other |-> Root]

Init ==
    /\ InitModel
    /\ input = NoInput
    /\ fn = "none"
    /\ output = None

Next ==
    \/ \E c \in NestTargets, rows \in 0..MaxGrid, cols \in 0..MaxGrid :
          AddNestedGrid(c, rows, cols)
    \/ InsertCol
    \/ InsertRow
    \/ \E s \in CompletionSources, d \in CompletionDests : DoCompletion(s, d)
    \/ \E c \in SelectTargets : SetActiveCell(c)
    \/ \E file \in SessionFiles : LoadSession(file)
    \/ \E c \in InputTargets, new_value \in InputTexts : ChangeInput(c, new_value)
    \/ \E written \in BOOLEAN : SaveSession(written)

Spec == Init /\ [][Next]_vars

\* the same messages in shorter behaviours, for the properties that ask every
\* key of every state
NextShort == steps < MaxShortSteps /\ Next

SpecShort == Init /\ [][NextShort]_vars

\* SetActiveCell sent only for cells that are in the map (AddNestedGrid is, by
\* NestTargets, in every specification)
KeyTargets == SelectTargets \cap DOMAIN grammars

NextKeys ==
    \/ \E c \in NestTargets, rows \in 0..MaxGrid, cols \in 0..MaxGrid :
          AddNestedGrid(c, rows, cols)
    \/ InsertCol
    \/ InsertRow
    \/ \E s \in CompletionSources, d \in CompletionDests : DoCompletion(s, d)
    \/ \E c \in KeyTargets : SetActiveCell(c)
    \/ \E file \in SessionFiles : LoadSession(file)
    \/ \E c \in InputTargets, new_value \in InputTexts : ChangeInput(c, new_value)
    \/ \E written \in BOOLEAN : SaveSession(written)

SpecKeys == Init /\ [][NextKeys]_vars

----------------------------------------------------------------------------
(* The Coordinate functions on their own: an argument is drawn, then the   *)
(* functions are applied to it                                             *)

Letters == {1, 2, 26}
AlphaRuns == {<<a>> : a \in Letters} \cup {<<a, b>> : a, b \in {1, 2}}
DigitRuns == {<<1>>, <<2>>, <<1, 0>>, <<0>>}
Fragments == {Fragment(a, d) : a \in AlphaRuns, d \in DigitRuns}

\* the texts of the coordinate syntax built from these fragments
RECURSIVE FragmentSeqs(_)
FragmentSeqs(n) ==
    IF n = 0 THEN {<<>>}
    ELSE FragmentSeqs(n - 1)
         \cup {Append(t, f) : t \in {u \in FragmentSeqs(n - 1) : Len(u) = n - 1},
                              f \in Fragments}

WellFormedTexts ==
    {t \in FragmentSeqs(MaxFrags)
        \cup {<<Special(sp)>> \o u : sp \in {"root", "meta"},
                                    u \in FragmentSeqs(MaxFrags)} :
        coordinate_rule(t)}

\* texts outside the syntax: the empty text, a text with an empty fragment
\* ("root-"), a fragment without its letters ("root-1") or without its digits
\* ("root-A"), and a root / meta token that does not come first ("A1-root")
MalformedTexts ==
    {<<>>}
    \cup {<<Special(sp), f>> :
              sp \in {"root", "meta"},
              f \in {Fragment(<<>>, <<>>), Fragment(<<>>, <<1>>), Fragment(<<1>>, <<>>)}}
    \cup {<<f>> : f \in {Fragment(<<>>, <<1>>), Fragment(<<1>>, <<>>)}}
    \cup {<<Fragment(<<1>>, <<1>>), Special(sp)>> : sp \in {"root", "meta"}}

Texts == WellFormedTexts \cup MalformedTexts

\* a valid text: one that parses, with every row at least 1
ValidText(t) ==
    /\ coordinate_rule(t)
    /\ \A i \in 1..Len(t) : t[i].special = "" => digit_val(t[i].digit) >= 1

Pairs == (1..MaxPair) \X (1..MaxPair)

RECURSIVE PairSeqs(_)
PairSeqs(n) ==
    IF n = 0 THEN {<<>>}
    ELSE PairSeqs(n - 1)
         \cup {Append(c, rc) : c \in {u \in PairSeqs(n - 1) : Len(u) = n - 1},
                               rc \in Pairs}

\* the last pair of an argument also takes the largest index
LastPairs == ((1..MaxPair) \cup {U32Max}) \X ((1..MaxPair) \cup {U32Max})

\* the coordinates of at most MaxLen pairs
Coords == {Append(p, rc) : p \in PairSeqs(MaxLen - 1), rc \in LastPairs}

\* the coordinates a coordinate is compared with: c with one pair replaced,
\* its parent and its children
Variants(c) ==
    {[c EXCEPT ![i] = rc] : i \in 1..Len(c), rc \in Pairs}
    \cup {child_of(c, rc) : rc \in Pairs}
    \cup (IF Len(c) > 1 THEN {SubSeq(c, 1, Len(c) - 1)} ELSE {})

InitCoord ==
    /\ InitModel
    /\ input \in {[NoInput EXCEPT !.kind = "text", !.text = t] : t \in Texts}
           \cup {[NoInput EXCEPT !.kind = "coord", !.c = c] : c \in Coords}
    /\ fn = "none"
    /\ output = None

\* coord!(text)
CallCoord ==
    /\ input.kind = "text"
    /\ fn = "none"
    /\ fn' = "coord"
    /\ output' = coord(input.text)
    /\ UNCHANGED <<input, modelVars>>

\* coord!(text).to_string()
CallToString ==
    /\ fn = "coord"
    /\ output.tag = "Some"
    /\ fn' = "to_string"
    /\ input' = [input EXCEPT !.c = output.val]
    /\ output' = to_string(output.val)
    /\ UNCHANGED modelVars

\* c.parent()
CallParent ==
    /\ input.kind = "coord"
    /\ fn = "none"
    /\ fn' = "parent"
    /\ output' = parent(input.c)
    /\ UNCHANGED <<input, modelVars>>

\* Coordinate::child_of(&c, rc)
CallChildOf ==
    /\ input.kind = "coord"
    /\ fn = "none"
    /\ \E rc \in Pairs :
          /\ input' = [input EXCEPT !.rc = rc]
          /\ output' = Some(child_of(input.c, rc))
    /\ fn' = "child_of"
    /\ UNCHANGED modelVars

\* c.full_row()
CallFullRow ==
    /\ input.kind = "coord"
    /\ fn = "none"
    /\ fn' = "full_row"
    /\ output' = full_row(input.c)
    /\ UNCHANGED <<input, modelVars>>

\* c.full_col()
CallFullCol ==
    /\ input.kind = "coord"
    /\ fn = "none"
    /\ fn' = "full_col"
    /\ output' = full_col(input.c)
    /\ UNCHANGED <<input, modelVars>>

\* c.full_row() == other.full_row(), for two coordinates below root or meta
CallRowEq ==
    /\ input.kind = "coord"
    /\ fn = "none"
    /\ Len(input.c) > 1
    /\ \E d \in Variants(input.c) :
          /\ Len(d) > 1
          /\ input' = [input EXCEPT !.other = d]
          /\ output' = Some(row_eq(full_row(input.c).val, full_row(d).val))
    /\ fn' = "row_eq"
    /\ UNCHANGED modelVars

\* c.full_col() == other.full_col()
CallColEq ==
    /\ input.kind = "coord"
    /\ fn = "none"
    /\ Len(input.c) > 1
    /\ \E d \in Variants(input.c) :
          /\ Len(d) > 1
          /\ input' = [input EXCEPT !.other = d]
          /\ output' = Some(col_eq(full_col(input.c).val, full_col(d).val))
    /\ fn' = "col_eq"
    /\ UNCHANGED modelVars

\* c.neighbor_above(), neighbor_below(), neighbor_left(), neighbor_right()
CallNeighbor(dir) ==
    /\ input.kind = "coord"
    /\ fn = "none"
    /\ fn' = dir
    /\ output' = CASE dir = "neighbor_above" -> neighbor_above(input.c)
                   [] dir = "neighbor_below" -> neighbor_below(input.c)
                   [] dir = "neighbor_left" -> neighbor_left(input.c)
                   [] dir = "neighbor_right" -> neighbor_right(input.c)
    /\ UNCHANGED <<input, modelVars>>

\* c.is_n_parent(other)
CallIsNParent ==
    /\ input.kind = "coord"
    /\ fn = "none"
    /\ \E d \in Variants(input.c) :
          /\ input' = [input EXCEPT !.other = d]
          /\ output' = is_n_parent(input.c, d)
    /\ fn' = "is_n_parent"
    /\ UNCHANGED modelVars

Neighbors ==
    {"neighbor_above", "neighbor_below", "neighbor_left", "neighbor_right"}

\* c.row_to_string()
CallRowToString ==
    /\ input.kind = "coord"
    /\ fn = "none"
    /\ fn' = "row_to_string"
    /\ output' = row_to_string(input.c)
    /\ UNCHANGED <<input, modelVars>>

NextCoord ==
    \/ CallCoord
    \/ CallToString
    \/ CallParent
    \/ CallChildOf
    \/ CallFullRow
    \/ CallFullCol
    \/ CallRowEq
    \/ CallColEq
    \/ CallIsNParent
    \/ \E dir \in Neighbors : CallNeighbor(dir)
    \/ CallRowToString

SpecCoord == InitCoord /\ [][NextCoord]_vars

----------------------------------------------------------------------------
(* Properties *)

\* the four parts of the model that a structural message may write
SameModel(M) ==
    /\ grammars = M.grammars
    /\ row_heights = M.row_heights
    /\ col_widths = M.col_widths
    /\ active_cell = M.active_cell

\* the active cell of M is a map key whose parent is a Grid-typed map entry
ActiveInGrid(M) ==
    /\ M.active_cell.tag = "Some"
    /\ M.active_cell.val \in DOMAIN M.grammars
    /\ parent(M.active_cell.val).tag = "Some"
    /\ parent(M.active_cell.val).val \in DOMAIN M.grammars
    /\ M.grammars[parent(M.active_cell.val).val].kind = "Grid"

\* M has no active cell, or the active cell has no parent, or the parent's
\* entry is missing or not Grid-typed
NoGridParent(M) ==
    \/ M.active_cell.tag = "None"
    \/ parent(M.active_cell.val).tag = "None"
    \/ parent(M.active_cell.val).val \notin DOMAIN M.grammars
    \/ M.grammars[parent(M.active_cell.val).val].kind # "Grid"

\* the coordinates declared, level by level, by the grids from c downwards
RECURSIVE DeclaredBelow(_, _)
DeclaredBelow(g, c) ==
    {c} \cup
    (IF c \in DOMAIN g /\ g[c].kind = "Grid"
     THEN UNION {DeclaredBelow(g, child_of(c, rc)) : rc \in Range(g[c].sub_coords)}
     ELSE {})

\* C1: after any sequence of completed structural operations, every key of the
\* grammar map other than root and meta has a parent that is a key of the map,
\* is Grid-typed and declares the key's last (row, col) pair.
C1_EveryKeyIsDeclaredByItsParent ==
    status = "running" =>
        \A k \in DOMAIN grammars :
            Len(k) > 1 =>
                /\ parent(k).val \in DOMAIN grammars
                /\ grammars[parent(k).val].kind = "Grid"
                /\ k[Len(k)] \in Range(grammars[parent(k).val].sub_coords)

\* C2: after any sequence of completed structural operations, every coordinate
\* reached by expanding declared child offsets from root or meta is a key of the
\* grammar map.
C2_NoDanglingDeclaredChild ==
    status = "running" =>
        DeclaredBelow(grammars, Root) \cup DeclaredBelow(grammars, Meta)
            \subseteq DOMAIN grammars

\* the offsets (1,1) .. (rows, cols)
GridOffsets(rows, cols) == (1..rows) \X (1..cols)

\* C3: AddNestedGrid(C, r, c), for C a key without children and r, c >= 1, adds
\* exactly the r*c keys child_of(C, (i, j)), each with parent C, and leaves at C
\* a Grid that declares exactly those r*c offsets.
C3_NestAddsExactlyTheGrid ==
    ( /\ last.op = "AddNestedGrid"
      /\ last.rows >= 1
      /\ last.cols >= 1
      /\ last.coord \in DOMAIN pre.m.grammars
      /\ query_parent(pre.m.grammars, last.coord) = {} )
    =>
    LET added == (DOMAIN grammars) \ (DOMAIN pre.m.grammars)
        offsets == GridOffsets(last.rows, last.cols)
    IN /\ added = {child_of(last.coord, rc) : rc \in offsets}
       /\ Cardinality(added) = last.rows * last.cols
       /\ \A k \in added : parent(k) = Some(last.coord)
       /\ grammars[last.coord].kind = "Grid"
       /\ Range(grammars[last.coord].sub_coords) = offsets
       /\ Len(grammars[last.coord].sub_coords) = last.rows * last.cols

C3_Witness ==
    /\ last.op = "AddNestedGrid"
    /\ last.rows = 2
    /\ last.cols = 2
    /\ last.coord \in DOMAIN pre.m.grammars
    /\ query_parent(pre.m.grammars, last.coord) = {}
    /\ Cardinality((DOMAIN grammars) \ (DOMAIN pre.m.grammars)) = 4

\* C4: when the active cell lies in a Grid-typed parent whose rightmost column
\* has N populated cells, InsertCol adds exactly N new keys, one per populated
\* row at column rightmost+1 under the same parent, and the parent's declared
\* offsets grow by exactly those N offsets.
C4_InsertColAddsNCells ==
    (last.op = "InsertCol" /\ status = "running" /\ ActiveInGrid(pre.m))
    =>
    LET g0 == pre.m.grammars
        a == pre.m.active_cell.val
        p == parent(a).val
        rm == right_most(g0, a).val
        column == query_col(g0, full_col(rm).val)
        offsets == {<<row(k), col(rm) + 1>> : k \in column}
        added == (DOMAIN grammars) \ (DOMAIN g0)
        old == g0[p].sub_coords
        new == grammars[p].sub_coords
    IN /\ added = {child_of(p, rc) : rc \in offsets}
       /\ Cardinality(added) = Cardinality(column)
       /\ Len(new) = Len(old) + Cardinality(column)
       /\ SubSeq(new, 1, Len(old)) = old
       /\ {new[i] : i \in (Len(old) + 1)..Len(new)} = offsets

\* C5: of two consecutive InsertCol actions on an active cell in a grid, the
\* second inserts one column to the right of the column the first inserted, and
\* leaves the cells of that first column as they are.
C5_SecondInsertColIsRelativeToTheFirst ==
    ( /\ last.op = "InsertCol"
      /\ pre.op = "InsertCol"
      /\ status = "running"
      /\ ActiveInGrid(pre.m) )
    =>
    /\ pre.inserted # {}
    /\ last.inserted # {}
    /\ \A x \in pre.inserted : \A y \in last.inserted :
          parent(y) = parent(x) /\ col(y) = col(x) + 1
    /\ \A x \in pre.inserted :
          /\ x \notin last.inserted
          /\ x \in DOMAIN grammars
          /\ grammars[x] = pre.m.grammars[x]

C5_Witness ==
    /\ last.op = "InsertCol"
    /\ pre.op = "InsertCol"
    /\ status = "running"
    /\ ActiveInGrid(pre.m)
    /\ Cardinality(pre.inserted) >= 2
    /\ Cardinality(last.inserted) >= 2

\* C6: InsertCol and InsertRow are no-ops when there is no active cell, when
\* the active cell has no parent, or when the parent's entry is missing or not
\* Grid-typed: nothing changes and the operation does not abort.
C6_InsertWithoutGridParentIsNoop ==
    (last.op \in {"InsertCol", "InsertRow"} /\ NoGridParent(pre.m))
    =>
    (status = "running" /\ SameModel(pre.m))

\* C7: after AddNestedGrid, InsertRow or InsertCol completes, every coordinate
\* it inserted has a row-height entry for its full_row and a column-width entry
\* for its full_col.
C7_InsertedCellsHaveSizeEntries ==
    (last.op \in {"AddNestedGrid", "InsertRow", "InsertCol"} /\ status = "running")
    =>
    \A k \in last.inserted :
        /\ full_row(k).val \in DOMAIN row_heights
        /\ full_col(k).val \in DOMAIN col_widths

\* C8: a structural action that fails leaves the grammar map, both size maps
\* and the active cell exactly as they were before it.
C8_FailedActionLeavesNoPartialUpdate ==
    status = "panicked" => SameModel(pre.m)

\* a text that starts with root or meta, has single-letter columns and rows
\* written without a leading zero
Canonical(t) ==
    /\ t[1].special # ""
    /\ \A i \in 1..Len(t) :
          t[i].special = "" => Len(t[i].alpha) = 1 /\ t[i].digit[1] # 0

\* C9: for every valid coordinate text T, multi-letter columns and texts
\* without the root/meta prefix included, to_string(parse(T)) == T.
C9_RoundTripOfEveryValidText ==
    (fn = "to_string" /\ ValidText(input.text)) => output = Some(input.text)

\* C9, amended: for every valid coordinate text T that starts with root or
\* meta and has single-letter columns and rows without a leading zero,
\* to_string(parse(T)) == T.
C9_RoundTripOfCanonicalText ==
    (fn = "to_string" /\ ValidText(input.text) /\ Canonical(input.text))
    => output = Some(input.text)

C9_Witness ==
    /\ fn = "to_string"
    /\ ValidText(input.text)
    /\ Canonical(input.text)
    /\ Len(input.text) = 3
    /\ input.text[3] = Fragment(<<26>>, <<1, 0>>)
    /\ output = Some(input.text)

\* C10: for every coordinate C of length > 1, parent(C) is Some(C without its
\* last pair), of length C.length - 1; parent(C) is None exactly when C has
\* length 1, in particular for root and meta.
C10_ParentDropsTheLastPair ==
    fn = "parent" =>
        /\ Len(input.c) > 1 =>
              /\ output = Some([i \in 1..(Len(input.c) - 1) |-> input.c[i]])
              /\ Len(output.val) = Len(input.c) - 1
        /\ output = None <=> Len(input.c) = 1
        /\ input.c \in {Root, Meta} => output = None

C10_Witness ==
    /\ fn = "parent"
    /\ Len(input.c) = 3
    /\ output.tag = "Some"
    /\ Len(output.val) = 2

\* C11: for every coordinate P and pair p, child_of(P, p) has length
\* P.length + 1, ends in p, and its parent is P; P itself is as it was.
C11_ChildOfAppendsThePair ==
    fn = "child_of" =>
        /\ output.tag = "Some"
        /\ Len(output.val) = Len(input.c) + 1
        /\ output.val[Len(output.val)] = input.rc
        /\ \A i \in 1..Len(input.c) : output.val[i] = input.c[i]
        /\ parent(output.val) = Some(input.c)

C11_Witness ==
    /\ fn = "child_of"
    /\ Len(input.c) = 2
    /\ input.rc = <<2, 1>>
    /\ Len(output.val) = 3
    /\ output.val[3] = <<2, 1>>

\* C12: for coordinates A and B of length > 1, full_row(A) == full_row(B) if
\* and only if parent(A) == parent(B) and row(A) == row(B), and likewise
\* full_col with col; equal row indices under different parents give different
\* full rows.
C12_FullRowEqualIffSameParentAndIndex ==
    /\ fn = "row_eq" =>
          output = Some(/\ parent(input.c) = parent(input.other)
                        /\ input.c[Len(input.c)][1]
                              = input.other[Len(input.other)][1])
    /\ fn = "col_eq" =>
          output = Some(/\ parent(input.c) = parent(input.other)
                        /\ input.c[Len(input.c)][2]
                              = input.other[Len(input.other)][2])

C12_Witness ==
    /\ fn = "row_eq"
    /\ Len(input.c) = 3
    /\ Len(input.other) = 3
    /\ input.c[3] = input.other[3]
    /\ input.c[2] # input.other[2]
    /\ output = Some(FALSE)

\* C13: full_row() and full_col() on a coordinate of length 1 (root, meta)
\* fail with a fatal error; on a coordinate of length > 1 they return
\* (parent, row) and (parent, col).
C13_FullRowFailsOnRootAndMeta ==
    /\ fn = "full_row" =>
          IF Len(input.c) = 1 THEN output = Panic
          ELSE output = Some(<<SubSeq(input.c, 1, Len(input.c) - 1),
                               input.c[Len(input.c)][1]>>)
    /\ fn = "full_col" =>
          IF Len(input.c) = 1 THEN output = Panic
          ELSE output = Some(<<SubSeq(input.c, 1, Len(input.c) - 1),
                               input.c[Len(input.c)][2]>>)

C13_Witness ==
    /\ fn = "full_row"
    /\ input.c = Meta
    /\ output = Panic

\* C14: neighbor_above(C) is None if and only if row(C) == 1, and
\* neighbor_left(C) is None if and only if col(C) == 1.
C14_AboveAndLeftAreNoneAtTheBoundary ==
    /\ fn = "neighbor_above" =>
          (output = None <=> input.c[Len(input.c)][1] = 1)
    /\ fn = "neighbor_left" =>
          (output = None <=> input.c[Len(input.c)][2] = 1)

C14_Witness ==
    /\ fn = "neighbor_above"
    /\ Len(input.c) = 2
    /\ input.c[2] = <<1, 2>>
    /\ output = None

\* C15: neighbor_below(C) and neighbor_right(C) return Some for every
\* coordinate C, also when the last row or column is the largest 32-bit
\* unsigned value.
C15_BelowAndRightAlwaysReturnSome ==
    fn \in {"neighbor_below", "neighbor_right"} => output.tag = "Some"

\* C16: whenever a neighbor function returns Some(D), D has the length of C,
\* the pairs before the last are those of C, and the last pair differs from
\* C's only in the row (above: -1, below: +1) or only in the column (left: -1,
\* right: +1).
C16_NeighborIsASiblingOneStepAway ==
    (fn \in Neighbors /\ output.tag = "Some") =>
        LET c == input.c
            d == output.val
            n == Len(c)
        IN /\ Len(d) = n
           /\ \A i \in 1..(n - 1) : d[i] = c[i]
           /\ fn = "neighbor_above" => d[n] = <<c[n][1] - 1, c[n][2]>>
           /\ fn = "neighbor_below" => d[n] = <<c[n][1] + 1, c[n][2]>>
           /\ fn = "neighbor_left" => d[n] = <<c[n][1], c[n][2] - 1>>
           /\ fn = "neighbor_right" => d[n] = <<c[n][1], c[n][2] + 1>>

C16_Witness ==
    /\ fn = "neighbor_left"
    /\ Len(input.c) = 3
    /\ input.c[3] = <<2, 2>>
    /\ output = Some([input.c EXCEPT ![3] = <<2, 1>>])

\* C17: for a coordinate C with a parent, row_to_string(C) is
\* to_string(parent(C)) followed by '-' and the decimal row of C (and fails
\* where to_string(parent(C)) fails); for a coordinate without a parent it is
\* the bare decimal row, "1" for root and meta.
C17_RowToStringIsParentTextAndRow ==
    fn = "row_to_string" =>
        LET c == input.c
            n == Len(c)
            shown == coord_show(SubSeq(c, 1, n - 1))
            digits == Fragment(<<>>, decimal(c[n][1]))
        IN /\ (n > 1 /\ shown.tag = "Some") =>
                  output = Some(shown.val \o <<digits>>)
           /\ (n > 1 /\ shown.tag = "None") => output = Panic
           /\ n = 1 => output = Some(<<digits>>)
           /\ c \in {Root, Meta} => output = Some(<<Fragment(<<>>, <<1>>)>>)

C17_Witness ==
    /\ fn = "row_to_string"
    /\ input.c = << <<1, 1>>, <<1, 1>>, <<2, 2>> >>
    /\ output = Some(<<Special("root"), Fragment(<<1>>, <<1>>),
                       Fragment(<<>>, <<2>>)>>)

\* C18: LoadSession(s) replaces the whole Session: afterwards the root grammar,
\* the meta grammar and the grammar map are those of s, and no row-height or
\* column-width entry of the previous session remains in effect (every entry
\* that is left belongs to a row or column of s that has a cell).
C18_LoadSessionReplacesTheWholeSession ==
    (last.op = "LoadSession" /\ status = "running") =>
        /\ root = last.coord.root
        /\ meta = last.coord.meta
        /\ grammars = last.coord.grammars
        /\ \A r \in DOMAIN row_heights : query_row(grammars, r) # {}
        /\ \A k \in DOMAIN col_widths : query_col(grammars, k) # {}

\* the cells that the grid stored at c declares
DeclaredChildren(g, c) == {child_of(c, rc) : rc \in Range(g[c].sub_coords)}

\* C19: the seed model has a root grid declaring 3 rows x 2 columns of child
\* offsets and a meta grid declaring 1 row x 2 columns, and every declared
\* child of both grids is a key of the grammar map.
C19_SeedIsRoot3x2AndMeta1x2 ==
    steps = 0 =>
        /\ Range(grammars[Root].sub_coords) = GridOffsets(3, 2)
        /\ Range(grammars[Meta].sub_coords) = GridOffsets(1, 2)
        /\ DeclaredChildren(grammars, Root) \subseteq DOMAIN grammars
        /\ DeclaredChildren(grammars, Meta) \subseteq DOMAIN grammars

\* C19, amended: the seed model has a root grid declaring 3 rows x 2 columns
\* of child offsets and a meta grid declaring one column of child offsets that
\* starts with rows 1 and 2 (the 2 rows x 1 column written in create), and
\* every declared child of both grids is a key of the grammar map.
C19_SeedIsRoot3x2AndMetaOneColumn ==
    steps = 0 =>
        /\ root = grammars[Root]
        /\ meta = grammars[Meta]
        /\ root.kind = "Grid"
        /\ Len(root.sub_coords) = 6
        /\ Range(root.sub_coords) = GridOffsets(3, 2)
        /\ meta.kind = "Grid"
        /\ Len(meta.sub_coords) >= 2
        /\ SubSeq(meta.sub_coords, 1, 2) = << <<1, 1>>, <<2, 1>> >>
        /\ \A rc \in Range(meta.sub_coords) : rc[2] = 1
        /\ DeclaredChildren(grammars, Root) \subseteq DOMAIN grammars
        /\ DeclaredChildren(grammars, Meta) \subseteq DOMAIN grammars

C19_Witness ==
    /\ steps = 0
    /\ last.op = "create"
    /\ Cardinality(DeclaredChildren(grammars, Root)) = 6
    /\ {MetaA1, MetaA2} \subseteq DeclaredChildren(grammars, Meta)
    /\ active_cell = Some(RootA1)

\* a fragment of the text is written with the row number 0
HasZeroRow(t) ==
    \E i \in 1..Len(t) :
        /\ t[i].special = ""
        /\ Len(t[i].digit) >= 1
        /\ \A j \in 1..Len(t[i].digit) : t[i].digit[j] = 0

\* C20: parsing a text with a fragment whose row number is 0, or a malformed
\* or empty text, fails and produces no Coordinate; every parsed coordinate is
\* non-empty and all its rows and columns are >= 1.
C20_ParseRejectsZeroAndMalformed ==
    fn = "coord" =>
        /\ (HasZeroRow(input.text) \/ input.text \in MalformedTexts) =>
               output = Panic
        /\ output.tag = "Some" =>
               /\ Len(output.val) >= 1
               /\ \A i \in 1..Len(output.val) :
                      output.val[i][1] >= 1 /\ output.val[i][2] >= 1

C20_Witness ==
    /\ fn = "coord"
    /\ Len(input.text) = 2
    /\ input.text[1] = Special("root")
    /\ input.text[2] = Fragment(<<2>>, <<0>>)
    /\ output = Panic

\* C21: AddNestedGrid(coord, r, c) on a cell whose parent P is Grid-typed leaves
\* P declaring coord's own offset and neither adds nor removes another offset
\* of P's declaration.
C21_NestLeavesTheParentDeclaration ==
    ( /\ last.op = "AddNestedGrid"
      /\ status = "running"
      /\ parent(last.coord).tag = "Some"
      /\ parent(last.coord).val \in DOMAIN pre.m.grammars
      /\ pre.m.grammars[parent(last.coord).val].kind = "Grid" )
    =>
    LET p == parent(last.coord).val
        old == Range(pre.m.grammars[p].sub_coords)
        new == Range(grammars[p].sub_coords)
        own == last.coord[Len(last.coord)]
    IN /\ own \in new
       /\ new \ {own} = old \ {own}

\* C23: when the active cell lies in a Grid-typed parent whose bottom-most row
\* has N populated cells, InsertRow adds exactly N new keys at row bottom+1 with
\* the same columns under the same parent, each holding the default grammar,
\* and appends exactly those N offsets to the parent's declared offsets.
C23_InsertRowAddsNCells ==
    (last.op = "InsertRow" /\ status = "running" /\ ActiveInGrid(pre.m))
    =>
    LET g0 == pre.m.grammars
        a == pre.m.active_cell.val
        p == parent(a).val
        bm == bottom_most(g0, a).val
        bottom == query_row(g0, full_row(bm).val)
        offsets == {<<row(bm) + 1, col(k)>> : k \in bottom}
        added == (DOMAIN grammars) \ (DOMAIN g0)
        old == g0[p].sub_coords
        new == grammars[p].sub_coords
    IN /\ added = {child_of(p, rc) : rc \in offsets}
       /\ Cardinality(added) = Cardinality(bottom)
       /\ \A k \in added : grammars[k] = default_grammar
       /\ Len(new) = Len(old) + Cardinality(bottom)
       /\ SubSeq(new, 1, Len(old)) = old
       /\ {new[i] : i \in (Len(old) + 1)..Len(new)} = offsets

\* the children that AddNestedGrid(c, rows, cols) inserts
GridChildren(c, rows, cols) == {child_of(c, rc) : rc \in GridOffsets(rows, cols)}

\* C22: a second AddNestedGrid(C, r, c) with the same arguments is idempotent
\* in shape: the key set of the map and the offsets declared at C are those
\* that the first call left, and every direct child of C holds the default
\* grammar, whatever content or nested grid was put into a child between the
\* two calls.
C22_SecondNestRestoresTheShape ==
    ( /\ last.op = "AddNestedGrid"
      /\ status = "running"
      /\ last.rows >= 1
      /\ last.cols >= 1
      /\ pre.back.op = "AddNestedGrid"
      /\ pre.back.coord = last.coord
      /\ pre.back.rows = last.rows
      /\ pre.back.cols = last.cols
      /\ pre.op \in {"AddNestedGrid", "DoCompletion"}
      /\ pre.coord \in GridChildren(last.coord, last.rows, last.cols) )
    =>
    /\ DOMAIN grammars = pre.back.keys
    /\ grammars[last.coord].kind = "Grid"
    /\ grammars[last.coord].sub_coords = as_grid(last.rows, last.cols).sub_coords
    /\ \A k \in GridChildren(last.coord, last.rows, last.cols) :
          k \in DOMAIN grammars /\ grammars[k] = default_grammar

\* C24: after AddNestedGrid(coord, r, c) with r, c >= 1 the active cell is
\* child_of(coord, (1, 1)), the first child of the new grid, and that
\* coordinate is a key of the grammar map.
C24_NestSelectsTheFirstChild ==
    ( /\ last.op = "AddNestedGrid"
      /\ status = "running"
      /\ last.rows >= 1
      /\ last.cols >= 1 )
    =>
    /\ active_cell = Some(child_of(last.coord, <<1, 1>>))
    /\ child_of(last.coord, <<1, 1>>) \in DOMAIN grammars
    /\ grammars[last.coord].sub_coords[1] = <<1, 1>>

C24_Witness ==
    /\ last.op = "AddNestedGrid"
    /\ status = "running"
    /\ last.rows = 2
    /\ last.cols = 2
    /\ Len(last.coord) = 3
    /\ pre.m.active_cell # Some(child_of(last.coord, <<1, 1>>))
    /\ active_cell = Some(child_of(last.coord, <<1, 1>>))

\* the rows (coord, i) and the columns (coord, j) of the grid nested at coord
ChildRows(c, rows) == {<<c, i>> : i \in 1..rows}
ChildCols(c, cols) == {<<c, j>> : j \in 1..cols}

\* C25: AddNestedGrid(coord, r, c) never changes a row-height or column-width
\* entry that exists for a child row (coord, i) or a child column (coord, j):
\* such entries keep their value, and the absent ones are created with 30 and
\* 90.
C25_NestKeepsExistingChildSizes ==
    ( /\ last.op = "AddNestedGrid"
      /\ status = "running"
      /\ last.rows >= 1
      /\ last.cols >= 1 )
    =>
    /\ \A r \in ChildRows(last.coord, last.rows) :
          /\ r \in DOMAIN row_heights
          /\ row_heights[r] = IF r \in DOMAIN pre.m.row_heights
                              THEN pre.m.row_heights[r] ELSE DefaultRowHeight
    /\ \A k \in ChildCols(last.coord, last.cols) :
          /\ k \in DOMAIN col_widths
          /\ col_widths[k] = IF k \in DOMAIN pre.m.col_widths
                             THEN pre.m.col_widths[k] ELSE DefaultColWidth

C25_Witness ==
    /\ last.op = "AddNestedGrid"
    /\ status = "running"
    /\ last.rows = 2
    /\ <<last.coord, 1>> \in DOMAIN pre.m.row_heights
    /\ pre.m.row_heights[<<last.coord, 1>>] = 2 * DefaultRowHeight
    /\ row_heights[<<last.coord, 1>>] = 2 * DefaultRowHeight
    /\ <<last.coord, 2>> \notin DOMAIN pre.m.row_heights
    /\ row_heights[<<last.coord, 2>>] = DefaultRowHeight

\* C26: after AddNestedGrid(coord, r, c) on a coordinate that has a parent, the
\* row-height entry of coord.full_row() is r * 30 and the column-width entry of
\* coord.full_col() is c * 90.
C26_NestResizesItsOwnCell ==
    ( /\ last.op = "AddNestedGrid"
      /\ status = "running"
      /\ Len(last.coord) > 1 )
    =>
    /\ <<parent(last.coord).val, row(last.coord)>> \in DOMAIN row_heights
    /\ row_heights[<<parent(last.coord).val, row(last.coord)>>]
          = last.rows * DefaultRowHeight
    /\ <<parent(last.coord).val, col(last.coord)>> \in DOMAIN col_widths
    /\ col_widths[<<parent(last.coord).val, col(last.coord)>>]
          = last.cols * DefaultColWidth

C26_Witness ==
    /\ last.op = "AddNestedGrid"
    /\ status = "running"
    /\ last.coord = RootA1
    /\ last.rows = 2
    /\ last.cols = 1
    /\ pre.m.row_heights[<<Root, 1>>] = DefaultRowHeight
    /\ row_heights[<<Root, 1>>] = 2 * DefaultRowHeight
    /\ col_widths[<<Root, 1>>] = DefaultColWidth

C28_CompletionNeverShrinks ==
    ( /\ last.op = "DoCompletion"
      /\ status = "running"
      /\ Len(last.coord) > 1 )
    =>
    LET r == <<parent(last.coord).val, row(last.coord)>>
        k == <<parent(last.coord).val, col(last.coord)>>
    IN /\ r \in DOMAIN pre.m.row_heights =>
             r \in DOMAIN row_heights /\ row_heights[r] >= pre.m.row_heights[r]
       /\ k \in DOMAIN pre.m.col_widths =>
             k \in DOMAIN col_widths /\ col_widths[k] >= pre.m.col_widths[k]

C28_Witness ==
    /\ last.op = "DoCompletion"
    /\ status = "running"
    /\ last.coord = RootA1
    /\ pre.m.row_heights[<<Root, 1>>] = 2 * DefaultRowHeight
    /\ row_heights[<<Root, 1>>] = 2 * DefaultRowHeight
    /\ col_widths[<<Root, 1>>] = pre.m.col_widths[<<Root, 1>>]

\* the rows and columns that are asked for: those of the keys, and one that no
\* key lies in
QueriedRows ==
    {<<SubSeq(k, 1, Len(k) - 1), k[Len(k)][1]>> : k \in {x \in DOMAIN grammars : Len(x) > 1}}
    \cup {<<Root, MaxIdx + 1>>}

QueriedCols ==
    {<<SubSeq(k, 1, Len(k) - 1), k[Len(k)][2]>> : k \in {x \in DOMAIN grammars : Len(x) > 1}}
    \cup {<<Root, MaxIdx + 1>>}

\* C29: in every reachable state whose map holds the keys root and meta,
\* query_row(R) returns exactly the keys of length > 1 whose full row is R,
\* query_col(K) exactly those whose full column is K, and query_parent(P)
\* exactly the keys whose parent is P; none of them fails on root or meta.
C29_QueriesReturnExactlyTheMatches ==
    {Root, Meta} \subseteq DOMAIN grammars =>
        /\ \A R \in QueriedRows :
              /\ ~query_row_panics(grammars, R)
              /\ query_row(grammars, R)
                    = {k \in DOMAIN grammars :
                          /\ Len(k) > 1
                          /\ SubSeq(k, 1, Len(k) - 1) = R[1]
                          /\ k[Len(k)][1] = R[2]}
        /\ \A K \in QueriedCols :
              /\ ~query_col_panics(grammars, K)
              /\ query_col(grammars, K)
                    = {k \in DOMAIN grammars :
                          /\ Len(k) > 1
                          /\ SubSeq(k, 1, Len(k) - 1) = K[1]
                          /\ k[Len(k)][2] = K[2]}
        /\ \A P \in DOMAIN grammars :
              query_parent(grammars, P)
                 = {k \in DOMAIN grammars :
                       Len(k) = Len(P) + 1 /\ SubSeq(k, 1, Len(P)) = P}

C29_Witness ==
    /\ last.op = "InsertRow"
    /\ status = "running"
    /\ {Root, Meta} \subseteq DOMAIN grammars
    /\ Cardinality(query_row(pre.m.grammars, <<RootA1, 2>>)) = 2
    /\ Cardinality(query_row(grammars, <<RootA1, 3>>)) = 2
    /\ Cardinality(query_parent(grammars, RootA1)) = 6

\* C30: the children of a Grid cell C are visited for rendering in the order of
\* C's declared child offsets, as child_of(C, o) for each declared offset o; a
\* declared child that is absent from the map contributes nothing and does not
\* abort the traversal.
C30_GridRendersItsDeclaredChildrenInOrder ==
    status = "running" =>
        \A c \in {k \in DOMAIN grammars : grammars[k].kind = "Grid"} :
            LET v == view_grammar(grammars, c)
                declared == grammars[c].sub_coords
            IN /\ v.tag = "Some"
               /\ v.val.cell = c
               /\ Len(v.val.nodes) = Len(declared)
               /\ \A i \in 1..Len(declared) :
                     IF Append(c, declared[i]) \in DOMAIN grammars
                     THEN v.val.nodes[i].cell = Append(c, declared[i])
                     ELSE v.val.nodes[i] = NoNode

C30_Witness ==
    /\ status = "running"
    /\ RootA1 \in DOMAIN grammars
    /\ grammars[RootA1].kind = "Grid"
    /\ grammars[RootA1].sub_coords = << <<1, 1>>, <<2, 1>> >>
    /\ child_of(RootA1, <<2, 1>>) \notin DOMAIN grammars
    /\ view_grammar(grammars, RootA1).tag = "Some"
    /\ view_grammar(grammars, RootA1).val.nodes[1].cell = child_of(RootA1, <<1, 1>>)
    /\ view_grammar(grammars, RootA1).val.nodes[2] = NoNode

----------------------------------------------------------------------------
----------------------------------------------------------------------------
----------------------------------------------------------------------------
NoRepeatedOffset(sub_coords) ==
    \A i, j \in 1..Len(sub_coords) : sub_coords[i] = sub_coords[j] => i = j

\* C33: in every state reachable from the seed by structural operations, no
\* Grid declares the same (row, col) offset more than once.
C33_NoGridDeclaresAnOffsetTwice ==
    \A k \in DOMAIN grammars :
        grammars[k].kind = "Grid" => NoRepeatedOffset(grammars[k].sub_coords)

----------------------------------------------------------------------------
InsertKeepsTheOldEntries ==
    \A k \in DOMAIN pre.m.grammars :
        (Some(k) # parent(pre.m.active_cell.val)) => grammars[k] = pre.m.grammars[k]

\* C34: InsertCol and InsertRow never change the grammar stored at a coordinate
\* that was already a key of the map, other than the entry of the parent grid:
\* every coordinate they synthesize is absent from the map before the
\* operation, also in grids whose rows or columns have unequal lengths.
C34_InsertOnlyWritesNewKeys ==
    (last.op \in {"InsertCol", "InsertRow"} /\ pre.m.active_cell.tag = "Some") =>
        /\ InsertKeepsTheOldEntries
        /\ last.inserted \cap DOMAIN pre.m.grammars = {}

----------------------------------------------------------------------------
\* C35: in every reachable state the root and meta grammars that the model
\* holds separately are equal to the entries of the grammar map at the root
\* and meta coordinates, so that the snapshot of to_session is consistent.
C35_RootAndMetaFieldsMatchTheMap ==
    LET session == to_session(Current)
    IN /\ Root \in DOMAIN session.grammars
       /\ Meta \in DOMAIN session.grammars
       /\ session.root = session.grammars[Root]
       /\ session.meta = session.grammars[Meta]

----------------------------------------------------------------------------
\* C36: in every state reachable from the seed by messages in which
\* SetActiveCell and AddNestedGrid are only given keys of the map (LoadSession
\* of any well-formed session included), the active cell is Some coordinate
\* that is a key of the grammar map.
C36_ActiveCellIsAKey ==
    active_cell.tag = "Some" /\ active_cell.val \in DOMAIN grammars

----------------------------------------------------------------------------
\* C37: the neighbor functions never move a coordinate from one top-level tree
\* to the other: for every coordinate C, root and meta themselves included, a
\* Some result of neighbor_above / below / left / right has the first pair of C.
C37_NeighborStaysInItsTree ==
    (fn \in Neighbors /\ output.tag = "Some") => output.val[1] = input.c[1]

----------------------------------------------------------------------------
\* the number of times the while-let loop of InsertCol / InsertRow moves on
RECURSIVE right_walk_steps(_, _)
right_walk_steps(g, c) ==
    LET n == neighbor_right(c)
    IN IF n.tag = "Some" /\ n.val \in DOMAIN g
       THEN 1 + right_walk_steps(g, n.val) ELSE 0

RECURSIVE down_walk_steps(_, _)
down_walk_steps(g, c) ==
    LET n == neighbor_below(c)
    IN IF n.tag = "Some" /\ n.val \in DOMAIN g
       THEN 1 + down_walk_steps(g, n.val) ELSE 0

WalkSteps ==
    IF last.op = "InsertCol"
    THEN right_walk_steps(pre.m.grammars, pre.m.active_cell.val)
    ELSE down_walk_steps(pre.m.grammars, pre.m.active_cell.val)

WalkIsBoundedByTheKeys ==
    (last.op \in {"InsertCol", "InsertRow"} /\ pre.m.active_cell.tag = "Some") =>
        WalkSteps <= Cardinality(DOMAIN pre.m.grammars)

\* C38: the walk that InsertCol / InsertRow performs to find the rightmost /
\* bottom-most occupied cell terminates in every reachable state, after at most
\* as many steps as there are keys in the grammar map, and the action then
\* completes.
C38_WalkTerminatesAndTheInsertCompletes ==
    (last.op \in {"InsertCol", "InsertRow"} /\ pre.m.active_cell.tag = "Some") =>
        /\ WalkSteps <= Cardinality(DOMAIN pre.m.grammars)
        /\ status = "running"

----------------------------------------------------------------------------
\* the pairs of a are the first pairs of b
IsPrefix(a, b) == Len(a) <= Len(b) /\ \A i \in 1..Len(a) : a[i] = b[i]

====
